---- MODULE Spec2Model ----
(***************************************************************************)
(* SistemaSKC backend: inventory ledger (apps/inventario) and order        *)
(* lifecycle (apps/pedidos, apps/platos).                                  *)
(*                                                                         *)
(* Decimal(10,2) quantities and prices are integers counted in the unit    *)
(* of the last decimal place.  Timestamps are readings of the clock `now`, *)
(* which advances at every timezone.now() call.                            *)
(***************************************************************************)
EXTENDS Integers, Sequences, FiniteSets, TLC

(* ------------------------------ bounds -------------------------------- *)
MaxStock == 2
MaxTxns == 2
MaxClock == 2
MaxServings == 2
MaxNesting == 3

(* ----------------------------- universes ------------------------------ *)
Ingredients == {"flour", "oil"}
StaffUsers == {"staff"}
Customers == {"customer"}
Dishes == {"burger", "salad"}
Requests == {"r1", "r2"}
NULL == -1

\* quantities sent by callers: a negative one, zero and a positive one
QtyInputs == {-1, 0, 1}
OrderIds == {1, 2}

(* InventoryTransaction.TRANSACTION_TYPES *)
TRANSACTION_TYPES == {"RESTOCK", "USAGE", "ADJUSTMENT", "WASTE", "RETURN"}

VARIABLES
    ingredients,    \* rows of table ingredients
    stock,          \* rows of table inventory_stock, one per ingredient at most
    transactions,   \* rows of table inventory_transactions in creation order
    stock0,         \* the inventory_stock rows when the concurrent requests arrive
    adj,            \* each in-flight adjust request: position and in-memory stock object
    dishes,         \* rows of table dishes
    orders,         \* rows of tables orders and order_items
    now,            \* the clock read by timezone.now()
    last,           \* the request handled last and its answer
    creating,       \* the in-flight order creation: position, order row, items still to insert
    users,          \* rows of table users
    flight          \* each in-flight status request: position and in-memory order object

vars == <<ingredients, stock, transactions, stock0, adj, dishes, orders, now, last, creating,
          users, flight>>
invVars == <<ingredients, stock, transactions, stock0, adj>>
ordVars == <<dishes, orders>>

NoStock == [present |-> FALSE, quantity |-> 0, last_restocked |-> NULL]
NoRequest == [op |-> "none", result |-> "none", detail |-> "none"]
NotCreating == [pc |-> "idle", order |-> 0, requested |-> <<>>, rest |-> <<>>, result |-> "none"]
Idle == [pc |-> "idle", ingredient |-> "none", ttype |-> "none", delta |-> 0,
         quantity |-> 0, last_restocked |-> NULL, user |-> "none", result |-> "none"]

(* ============================ inventory =============================== *)

\* InventoryAdjustmentSerializer: ChoiceField without USAGE, then validate()
AdjustmentChoices == TRANSACTION_TYPES \ {"USAGE"}

AdjustmentValidMutant(ttype, qty) == ttype \in AdjustmentChoices /\ qty # 0
AdjustmentValid(ttype, qty) ==
    /\ ttype \in AdjustmentChoices
    /\ qty # 0
    /\ ~(qty < 0 /\ ttype \in {"RESTOCK", "WASTE", "RETURN"})

\* the field the validation error of an invalid adjustment is reported on
InvalidField(ttype) == IF ttype \in AdjustmentChoices THEN "quantity" ELSE "transaction_type"

\* adjust: "Normalize sign: RESTOCK positive, WASTE/RETURN negative, ADJUSTMENT as provided"
DeltaMutant(ttype, qty) == qty
Delta(ttype, qty) ==
    IF ttype = "RESTOCK" THEN qty
    ELSE IF ttype \in {"WASTE", "RETURN"} THEN 0 - qty
    ELSE qty

\* adjust: "if new_qty < 0: return Response(..., status=400)"
InsufficientMutant(new_qty) == FALSE
Insufficient(new_qty) == new_qty < 0

Txn(i, ttype, qty, bal, user) ==
    [ingredient |-> i, transaction_type |-> ttype, quantity |-> qty,
     balance_after |-> bal, user |-> user]

InBounds(q) == (0 - MaxStock) <= q /\ q <= MaxStock

Answer(op, result, detail) == [op |-> op, result |-> result, detail |-> detail]

\* IngredientSerializer.create: the ingredient row and, with it, a zero stock row
CreateIngredient(i) ==
    /\ i \notin ingredients
    /\ ingredients' = ingredients \cup {i}
    /\ stock' = [stock EXCEPT ![i] = [present |-> TRUE, quantity |-> 0, last_restocked |-> NULL]]
    /\ last' = Answer("create_ingredient", "201", "ok")
    /\ UNCHANGED <<transactions, stock0, adj, creating, users, flight, dishes, orders, now>>

\* POST /inventory/stocks/ through InventoryStockSerializer (quantity is writable on create)
CreateStock(i, q) ==
    /\ i \in ingredients
    /\ IF stock[i].present \/ q < 0
       THEN /\ last' = Answer("create_stock", "400", IF q < 0 THEN "quantity" ELSE "ingredient")
            /\ UNCHANGED stock
       ELSE /\ stock' = [stock EXCEPT ![i] = [present |-> TRUE, quantity |-> q, last_restocked |-> NULL]]
            /\ last' = Answer("create_stock", "201", "ok")
    /\ UNCHANGED <<ingredients, transactions, stock0, adj, creating, users, flight, dishes, orders, now>>

\* InventoryStockViewSet.adjust, one request handled alone
Adjust(i, user, ttype, qty) ==
    /\ stock[i].present
    /\ LET delta == Delta(ttype, qty)
           new_qty == stock[i].quantity + delta
       IN  IF ~AdjustmentValid(ttype, qty)
           THEN /\ last' = Answer("adjust", "400", InvalidField(ttype))
                /\ UNCHANGED <<stock, transactions, now>>
           ELSE IF Insufficient(new_qty)
           THEN /\ last' = Answer("adjust", "400", "Insufficient stock")
                /\ UNCHANGED <<stock, transactions, now>>
           ELSE /\ InBounds(new_qty)
                /\ Len(transactions) < MaxTxns
                /\ ttype = "RESTOCK" => now < MaxClock
                /\ now' = IF ttype = "RESTOCK" THEN now + 1 ELSE now
                /\ stock' = [stock EXCEPT ![i] =
                                [present |-> TRUE, quantity |-> new_qty,
                                 last_restocked |-> IF ttype = "RESTOCK" THEN now'
                                                    ELSE stock[i].last_restocked]]
                /\ transactions' = Append(transactions, Txn(i, ttype, delta, new_qty, user))
                /\ last' = Answer("adjust", "200", "ok")
    /\ UNCHANGED <<ingredients, stock0, adj, creating, users, flight, dishes, orders>>

\* InventoryStock.add_stock
AddStock(i, quantity) ==
    /\ stock[i].present
    /\ InBounds(stock[i].quantity + quantity)
    /\ Len(transactions) < MaxTxns
    /\ stock' = [stock EXCEPT ![i].quantity = @ + quantity]
    /\ transactions' = Append(transactions,
                              Txn(i, "RESTOCK", quantity, stock[i].quantity + quantity, "none"))
    /\ last' = Answer("add_stock", "None", "ok")
    /\ UNCHANGED <<ingredients, stock0, adj, creating, users, flight, dishes, orders, now>>

\* deduct_stock: "if self.quantity >= quantity"
CanDeductMutant(current, quantity) == current > quantity
CanDeduct(current, quantity) == current >= quantity

\* InventoryStock.deduct_stock
DeductStock(i, quantity) ==
    /\ stock[i].present
    /\ IF CanDeduct(stock[i].quantity, quantity)
       THEN /\ InBounds(stock[i].quantity - quantity)
            /\ Len(transactions) < MaxTxns
            /\ stock' = [stock EXCEPT ![i].quantity = @ - quantity]
            /\ transactions' = Append(transactions,
                                      Txn(i, "USAGE", 0 - quantity, stock[i].quantity - quantity, "none"))
            /\ last' = Answer("deduct_stock", "True", "ok")
       ELSE /\ last' = Answer("deduct_stock", "False", "ok")
            /\ UNCHANGED <<stock, transactions>>
    /\ UNCHANGED <<ingredients, stock0, adj, creating, users, flight, dishes, orders, now>>

\* InventoryStockSerializer.update: "if 'quantity' in validated_data: raise ValidationError"
RejectsQuantityMutant(fields) == FALSE
RejectsQuantity(fields) == "quantity" \in fields

\* field validation of a PATCH on a stock row: quantity has MinValueValidator(0),
\* ingredient must be an existing ingredient with no other stock row (OneToOne)
PatchFieldErrors(i, fields, q, j) ==
    (IF "quantity" \in fields /\ q < 0 THEN {"quantity"} ELSE {})
    \cup (IF "ingredient" \in fields /\ (j \notin ingredients \/ (j # i /\ stock[j].present))
          THEN {"ingredient"} ELSE {})

\* the keys of the error body of a 400 answer
ErrorKeys(errs) ==
    IF errs = {"quantity"} THEN "quantity"
    ELSE IF errs = {"ingredient"} THEN "ingredient"
    ELSE "quantity,ingredient"

\* PATCH /inventory/stocks/{id}/ through InventoryStockSerializer: field
\* validation, then update(), then ModelSerializer.update setting every
\* validated field and saving
PatchStock(i, fields, q, lr, j) ==
    /\ stock[i].present
    /\ LET errs == PatchFieldErrors(i, fields, q, j)
           target == IF "ingredient" \in fields THEN j ELSE i
           row == [present |-> TRUE,
                   quantity |-> IF "quantity" \in fields THEN q ELSE stock[i].quantity,
                   last_restocked |-> IF "last_restocked" \in fields THEN lr
                                      ELSE stock[i].last_restocked]
       IN  IF errs # {}
           THEN /\ last' = Answer("patch_stock", "400", ErrorKeys(errs))
                /\ UNCHANGED stock
           ELSE IF RejectsQuantity(fields)
           THEN /\ last' = Answer("patch_stock", "400", "quantity")
                /\ UNCHANGED stock
           ELSE /\ stock' = [[stock EXCEPT ![i] = NoStock] EXCEPT ![target] = row]
                /\ last' = Answer("patch_stock", "200", "ok")
    /\ UNCHANGED <<ingredients, transactions, stock0, adj, creating, users, flight, dishes, orders, now>>

(* ---- adjust as the steps of a request served next to other requests ---- *)
(* The view opens no transaction.atomic block and takes no row lock, so    *)
(* the SELECT of get_object, the UPDATE of stock.save() and the INSERT of  *)
(* InventoryTransaction.objects.create are separate statements.            *)

\* get_object, serializer validation, sign normalisation and the new_qty check
AdjRead(r, i, user, ttype, qty) ==
    /\ adj[r].pc = "idle"
    /\ stock[i].present
    /\ LET delta == Delta(ttype, qty)
           new_qty == stock[i].quantity + delta
       IN  IF ~AdjustmentValid(ttype, qty)
           THEN /\ adj' = [adj EXCEPT ![r] = [Idle EXCEPT !.pc = "done", !.ingredient = i,
                                               !.ttype = ttype, !.result = "400"]]
                /\ UNCHANGED now
           ELSE IF Insufficient(new_qty)
           THEN /\ adj' = [adj EXCEPT ![r] = [Idle EXCEPT !.pc = "done", !.ingredient = i,
                                               !.ttype = ttype, !.result = "400"]]
                /\ UNCHANGED now
           ELSE /\ InBounds(new_qty)
                /\ ttype = "RESTOCK" => now < MaxClock
                /\ now' = IF ttype = "RESTOCK" THEN now + 1 ELSE now
                /\ adj' = [adj EXCEPT ![r] =
                              [pc |-> "save", ingredient |-> i, ttype |-> ttype, delta |-> delta,
                               quantity |-> new_qty,
                               last_restocked |-> IF ttype = "RESTOCK" THEN now'
                                                  ELSE stock[i].last_restocked,
                               user |-> user, result |-> "none"]]
    /\ last' = Answer("adjust", "pending", r)
    /\ UNCHANGED <<ingredients, stock, transactions, stock0, creating, users, flight, dishes, orders>>

\* stock.save(): the UPDATE writes the fields of the in-memory object
AdjSave(r) ==
    /\ adj[r].pc = "save"
    /\ stock' = [stock EXCEPT ![adj[r].ingredient] =
                    [present |-> TRUE, quantity |-> adj[r].quantity,
                     last_restocked |-> adj[r].last_restocked]]
    /\ adj' = [adj EXCEPT ![r].pc = "insert"]
    /\ last' = Answer("adjust", "pending", r)
    /\ UNCHANGED <<ingredients, transactions, stock0, creating, users, flight, dishes, orders, now>>

\* InventoryTransaction.objects.create(...) and the 200 response
AdjInsert(r) ==
    /\ adj[r].pc = "insert"
    /\ Len(transactions) < MaxTxns
    /\ transactions' = Append(transactions,
                              Txn(adj[r].ingredient, adj[r].ttype, adj[r].delta,
                                  adj[r].quantity, adj[r].user))
    /\ adj' = [adj EXCEPT ![r].pc = "done", ![r].result = "200"]
    /\ last' = Answer("adjust", "200", r)
    /\ UNCHANGED <<ingredients, stock, stock0, creating, users, flight, dishes, orders, now>>

\* the INSERT raises (database error, worker killed): the request ends with
\* a server error and the UPDATE already issued stays committed
AdjCrash(r) ==
    /\ adj[r].pc = "insert"
    /\ adj' = [adj EXCEPT ![r].pc = "done", ![r].result = "500"]
    /\ last' = Answer("adjust", "500", r)
    /\ UNCHANGED <<ingredients, stock, transactions, stock0, creating, users, flight, dishes, orders, now>>

(* ============================ catalogue =============================== *)

\* RecipeItem rows: quantity needed per serving, 0 where the dish has no such item
Recipe(d, i) ==
    IF d = "burger" /\ i = "flour" THEN 1
    ELSE IF d = "salad" /\ i = "flour" THEN 1
    ELSE IF d = "salad" /\ i = "oil" THEN 2
    ELSE 0

\* RecipeItem.check_availability: stock.quantity >= self.quantity, False without a stock row
RecipeItemAvailable(d, i) == stock[i].present /\ stock[i].quantity >= Recipe(d, i)

\* Dish.check_availability: every recipe item is available
DishCheckAvailability(d) ==
    \A i \in Ingredients : Recipe(d, i) > 0 => RecipeItemAvailable(d, i)

\* DELETE /inventory/ingredients/{id}/ (IngredientViewSet is a ModelViewSet):
\* RecipeItem.ingredient is on_delete=PROTECT, InventoryStock.ingredient and
\* InventoryTransaction.ingredient are on_delete=CASCADE
DeleteIngredient(i) ==
    /\ i \in ingredients
    /\ IF \E d \in Dishes : Recipe(d, i) > 0
       THEN /\ last' = Answer("delete_ingredient", "500", "ProtectedError")
            /\ UNCHANGED <<ingredients, stock, transactions>>
       ELSE /\ ingredients' = ingredients \ {i}
            /\ stock' = [stock EXCEPT ![i] = NoStock]
            /\ transactions' = SelectSeq(transactions, LAMBDA t : t.ingredient # i)
            /\ last' = Answer("delete_ingredient", "204", "ok")
    /\ UNCHANGED <<stock0, adj, creating, users, flight, dishes, orders, now>>

(* ============================== orders ================================ *)

OrderStatus == {"PENDING", "CONFIRMED", "IN_PROGRESS", "READY", "DELIVERED", "CANCELLED"}
ORDER_TYPE_CHOICES == {"DINE_IN", "TAKEOUT", "DELIVERY"}
TableInputs == {"absent", "", "5"}
ActualTimes == {NULL, 0, 1}

NoOrder == [present |-> FALSE, customer |-> "none", status |-> "PENDING", order_type |-> "DINE_IN",
            table_number |-> "null", total_amount |-> 0, actual_time |-> NULL,
            completed_at |-> NULL, items |-> <<>>]

\* the requested items of an order: a dish and a number of servings each
ItemInputs == [dish : Dishes, quantity : 1..MaxServings]
ItemLists == {<<>>} \cup {<<a>> : a \in ItemInputs} \cup {<<a, b>> : a, b \in ItemInputs}

\* OrderStatusUpdateSerializer.validate_status: valid_transitions
valid_transitions_mutant(current) ==
    IF current = "PENDING" THEN {"CONFIRMED", "CANCELLED"}
    ELSE IF current = "CONFIRMED" THEN {"IN_PROGRESS", "CANCELLED"}
    ELSE IF current = "IN_PROGRESS" THEN {"READY", "CANCELLED"}
    ELSE IF current = "READY" THEN {"DELIVERED", "CANCELLED"}
    ELSE {}
valid_transitions(current) ==
    IF current = "PENDING" THEN {"CONFIRMED", "CANCELLED"}
    ELSE IF current = "CONFIRMED" THEN {"IN_PROGRESS", "CANCELLED"}
    ELSE IF current = "IN_PROGRESS" THEN {"READY", "CANCELLED"}
    ELSE IF current = "READY" THEN {"DELIVERED"}
    ELSE {}

\* update_status: "if new_status == OrderStatus.DELIVERED and not order.completed_at"
StampsCompletionMutant(new_status, completed_at) == new_status = "DELIVERED"
StampsCompletion(new_status, completed_at) ==
    new_status = "DELIVERED" /\ completed_at = NULL

\* signals.handle_order_status_change on a save that does not create the row:
\* a DELIVERED order without completed_at is stamped and saved once more
SignalStampsMutant(ord) == FALSE
SignalStamps(ord) == ord.status = "DELIVERED" /\ ord.completed_at = NULL
HandleOrderStatusChange(ord, t) ==
    IF SignalStamps(ord) THEN [ord EXCEPT !.completed_at = t] ELSE ord

\* Order.save followed by its post_save receivers, which run again on the
\* save(update_fields=['completed_at']) that handle_order_status_change
\* makes: the row left in the table, the number of nested saves and the
\* number of dish rows update_dish_popularity saved; depth cuts a chain
\* that would not end
PostSaveMutant(ord, created, t, depth) ==
    [order |-> IF ~created /\ ord.status = "DELIVERED"
               THEN [ord EXCEPT !.completed_at = t] ELSE ord,
     nested_saves |-> IF ~created /\ ord.status = "DELIVERED" THEN depth ELSE 0,
     dish_updates |-> IF created THEN Len(ord.items) ELSE 0]

RECURSIVE PostSave(_, _, _, _)
PostSave(ord, created, t, depth) ==
    LET popular == IF created THEN Len(ord.items) ELSE 0
    IN  IF depth > 0 /\ ~created /\ ord.status = "DELIVERED" /\ ord.completed_at = NULL
        THEN LET inner == PostSave([ord EXCEPT !.completed_at = t], FALSE, t, depth - 1)
             IN  [order |-> inner.order,
                  nested_saves |-> 1 + inner.nested_saves,
                  dish_updates |-> popular + inner.dish_updates]
        ELSE [order |-> ord, nested_saves |-> 0, dish_updates |-> popular]

\* signals.update_dish_popularity: on the creating save, one point per item
\* the order has at that moment
RECURSIVE UpdateDishPopularity(_, _, _)
UpdateDishPopularity(ds, created, its) ==
    IF ~created \/ its = <<>> THEN ds
    ELSE UpdateDishPopularity(
             [ds EXCEPT ![Head(its).dish].popularity_score = @ + 1], created, Tail(its))

\* OrderCreateSerializer.create: OrderItem.objects.create(unit_price=dish.price, ...),
\* then OrderItem.save: subtotal = quantity * unit_price; a unit_price sent
\* by the client is a read-only field of OrderItemSerializer and is dropped
NewItemMutant(it) ==
    [dish |-> it.dish, quantity |-> it.quantity, unit_price |-> it.unit_price,
     subtotal |-> it.quantity * it.unit_price]
NewItem(it) ==
    [dish |-> it.dish, quantity |-> it.quantity, unit_price |-> dishes[it.dish].price,
     subtotal |-> it.quantity * dishes[it.dish].price]

\* Order.calculate_total: the sum of the items' subtotals
SumSubtotalsMutant(its) == IF its = <<>> THEN 0 ELSE Head(its).subtotal
RECURSIVE SumSubtotals(_)
SumSubtotals(its) == IF its = <<>> THEN 0 ELSE Head(its).subtotal + SumSubtotals(Tail(its))

\* OrderItemSerializer.validate_dish
ItemError(it) ==
    IF ~dishes[it.dish].is_available THEN "unavailable"
    ELSE IF ~DishCheckAvailability(it.dish) THEN "insufficient"
    ELSE "ok"

\* the serializer validating a creation request: OrderCreateSerializer
\* declares the nested items and no validate() of its own
CreateError(order_type, table_number, its) ==
    IF \E k \in 1..Len(its) : ItemError(its[k]) # "ok" THEN "items" ELSE "ok"

FreeIds == {o \in OrderIds : ~orders[o].present}

\* POST /orders/: OrderViewSet.create, perform_create, OrderCreateSerializer.create
CreateOrder(user, order_type, table_number, its) ==
    /\ FreeIds # {}
    /\ LET err == CreateError(order_type, table_number, its)
           o == CHOOSE x \in FreeIds : \A y \in FreeIds : x <= y
           rows == [k \in 1..Len(its) |-> NewItem(its[k])]
       IN  IF err # "ok"
           THEN /\ last' = Answer("create", "400", err)
                /\ UNCHANGED <<orders, dishes>>
           ELSE /\ orders' = [orders EXCEPT ![o] =
                                 [present |-> TRUE, customer |-> user, status |-> "PENDING",
                                  order_type |-> IF order_type = "absent" THEN "DINE_IN"
                                                 ELSE order_type,
                                  table_number |-> IF table_number = "absent" THEN "null"
                                                   ELSE table_number,
                                  total_amount |-> SumSubtotals(rows),
                                  actual_time |-> NULL, completed_at |-> NULL,
                                  items |-> rows]]
                \* the creating save runs before any item row exists
                /\ dishes' = UpdateDishPopularity(dishes, TRUE, <<>>)
                /\ last' = Answer("create", "201", "ok")
    /\ UNCHANGED <<ingredients, stock, transactions, stock0, adj, creating, users, flight, now>>

(* ---- order creation as the statements OrderCreateSerializer.create runs ---- *)
(* create() opens no transaction.atomic block: Order.objects.create, each      *)
(* OrderItem.objects.create and the save() of calculate_total are separate     *)
(* statements, each committed when it returns.                                 *)

\* validation, then Order.objects.create(**validated_data): the order row
\* with no item and total_amount 0; the post_save of this save finds no item
CreateBegin(user, order_type, table_number, its) ==
    /\ creating.pc = "idle"
    /\ FreeIds # {}
    /\ LET err == CreateError(order_type, table_number, its)
           o == CHOOSE x \in FreeIds : \A y \in FreeIds : x <= y
       IN  IF err # "ok"
           THEN /\ creating' = [NotCreating EXCEPT !.pc = "done", !.requested = its,
                                                   !.result = "400"]
                /\ last' = Answer("create", "400", err)
                /\ UNCHANGED <<orders, dishes>>
           ELSE /\ orders' = [orders EXCEPT ![o] =
                                 [present |-> TRUE, customer |-> user, status |-> "PENDING",
                                  order_type |-> IF order_type = "absent" THEN "DINE_IN"
                                                 ELSE order_type,
                                  table_number |-> IF table_number = "absent" THEN "null"
                                                   ELSE table_number,
                                  total_amount |-> 0,
                                  actual_time |-> NULL, completed_at |-> NULL,
                                  items |-> <<>>]]
                /\ dishes' = UpdateDishPopularity(dishes, TRUE, <<>>)
                /\ creating' = [pc |-> "items", order |-> o, requested |-> its, rest |-> its,
                                result |-> "none"]
                /\ last' = Answer("create", "pending", "order")
    /\ UNCHANGED <<ingredients, stock, transactions, stock0, adj, users, flight, now>>

\* OrderItem.objects.create(order=order, dish=dish, unit_price=dish.price, **item_data)
CreateItem ==
    /\ creating.pc = "items"
    /\ creating.rest # <<>>
    /\ orders' = [orders EXCEPT ![creating.order].items = Append(@, NewItem(Head(creating.rest)))]
    /\ creating' = [creating EXCEPT !.rest = Tail(@)]
    /\ last' = Answer("create", "pending", "item")
    /\ UNCHANGED <<ingredients, stock, transactions, stock0, adj, users, flight, dishes, now>>

\* order.calculate_total() and the 201 response
CreateTotal ==
    /\ creating.pc = "items"
    /\ creating.rest = <<>>
    /\ orders' = [orders EXCEPT ![creating.order].total_amount =
                                    SumSubtotals(orders[creating.order].items)]
    /\ creating' = [creating EXCEPT !.pc = "done", !.result = "201"]
    /\ last' = Answer("create", "201", "ok")
    /\ UNCHANGED <<ingredients, stock, transactions, stock0, adj, users, flight, dishes, now>>

\* the next statement raises (database error, worker killed): the request
\* ends with a server error and the rows already written stay committed
CreateCrash ==
    /\ creating.pc = "items"
    /\ creating' = [creating EXCEPT !.pc = "done", !.result = "500"]
    /\ last' = Answer("create", "500", "error")
    /\ UNCHANGED <<ingredients, stock, transactions, stock0, adj, users, flight, dishes, orders, now>>

\* PATCH /orders/{id}/update_status/
UpdateStatusMutant(o, new_status, actual_time) ==
    /\ orders[o].present
    /\ new_status \in valid_transitions(orders[o].status)
    /\ orders' = [orders EXCEPT ![o].status = new_status]
    /\ stock' = [i \in Ingredients |->
                    IF new_status = "CONFIRMED" /\ stock[i].present /\ stock[i].quantity > 0
                    THEN [stock[i] EXCEPT !.quantity = @ - 1] ELSE stock[i]]
    /\ last' = Answer("update_status", "200", "ok")
    /\ UNCHANGED <<ingredients, transactions, stock0, adj, creating, users, flight, dishes, now>>

UpdateStatus(o, new_status, actual_time) ==
    /\ orders[o].present
    /\ IF new_status \notin valid_transitions(orders[o].status)
       THEN /\ last' = Answer("update_status", "400", "status")
            /\ UNCHANGED <<orders, now>>
       ELSE LET stamps == StampsCompletion(new_status, orders[o].completed_at)
                t == now + 1
                set == [orders[o] EXCEPT
                           !.status = new_status,
                           !.completed_at = IF stamps THEN t ELSE @,
                           !.actual_time = IF stamps /\ actual_time # NULL /\ actual_time # 0
                                           THEN actual_time ELSE @]
            IN  /\ (stamps \/ SignalStamps(set)) => now < MaxClock
                /\ now' = IF stamps \/ SignalStamps(set) THEN t ELSE now
                /\ orders' = [orders EXCEPT ![o] = HandleOrderStatusChange(set, t)]
                /\ last' = Answer("update_status", "200", "ok")
    /\ UNCHANGED <<ingredients, stock, transactions, stock0, adj, creating, users, flight, dishes>>

\* cancel: "if order.status not in [OrderStatus.PENDING, OrderStatus.CONFIRMED]" -> 400
CancellableMutant(status) == status \in {"PENDING", "CONFIRMED", "IN_PROGRESS"}
Cancellable(status) == status \in {"PENDING", "CONFIRMED"}

\* POST /orders/{id}/cancel/
Cancel(o) ==
    /\ orders[o].present
    /\ IF ~Cancellable(orders[o].status)
       THEN /\ last' = Answer("cancel", "400", "error")
            /\ UNCHANGED orders
       ELSE /\ orders' = [orders EXCEPT ![o] =
                             HandleOrderStatusChange([orders[o] EXCEPT !.status = "CANCELLED"], now)]
            /\ last' = Answer("cancel", "200", "ok")
    /\ UNCHANGED <<ingredients, stock, transactions, stock0, adj, creating, users, flight, dishes, now>>

\* PATCH /orders/{id}/ by staff through OrderSerializer: status, order_type
\* and table_number are writable, completed_at and total_amount read-only
PatchOrder(o, status, order_type, table_number) ==
    /\ orders[o].present
    /\ IF order_type = "DINE_IN" /\ table_number \in {"absent", ""}
       THEN /\ last' = Answer("partial_update", "400", "table_number")
            /\ UNCHANGED <<orders, now>>
       ELSE LET t == now + 1
                set == [orders[o] EXCEPT
                           !.status = IF status = "absent" THEN @ ELSE status,
                           !.order_type = IF order_type = "absent" THEN @ ELSE order_type,
                           !.table_number = IF table_number = "absent" THEN @ ELSE table_number]
            IN  /\ SignalStamps(set) => now < MaxClock
                /\ now' = IF SignalStamps(set) THEN t ELSE now
                /\ orders' = [orders EXCEPT ![o] = HandleOrderStatusChange(set, t)]
                /\ last' = Answer("partial_update", "200", "ok")
    /\ UNCHANGED <<ingredients, stock, transactions, stock0, adj, creating, users, flight, dishes>>

\* OrderAdmin.mark_as_confirmed / mark_as_in_progress / mark_as_ready:
\* queryset.update(status=...) on the selected rows, no save() and no signal
AdminMark(selected, status) ==
    /\ selected # {}
    /\ \A o \in selected : orders[o].present
    /\ orders' = [o \in OrderIds |->
                     IF o \in selected THEN [orders[o] EXCEPT !.status = status] ELSE orders[o]]
    /\ last' = Answer("admin_mark", "200", status)
    /\ UNCHANGED <<ingredients, stock, transactions, stock0, adj, creating, users, flight, dishes, now>>

\* PATCH /dishes/{id}/ {price} by staff through DishCreateUpdateSerializer:
\* validate_price rejects a price that is not above zero
UpdateDish(d, price) ==
    /\ IF price <= 0
       THEN /\ last' = Answer("update_dish", "400", "price")
            /\ UNCHANGED dishes
       ELSE /\ dishes' = [dishes EXCEPT ![d].price = price]
            /\ last' = Answer("update_dish", "200", "ok")
    /\ UNCHANGED <<ingredients, stock, transactions, stock0, adj, creating, users, flight, orders, now>>

\* a boolean field of a dish request: left out of the body, or sent true/false
FlagInputs == {"absent", "true", "false"}

\* DishCreateUpdateSerializer.validate: data.get(field, False) reads a field
\* the request left out as False; the value returned is the is_vegetarian
\* entry of the validated data
DishValidate(is_vegan, is_vegetarian) ==
    IF is_vegan = "true" /\ is_vegetarian # "true" THEN "true" ELSE is_vegetarian

\* setattr(instance, attr, value) for an attribute present in the validated data
SetFlag(old, value) == IF value = "absent" THEN old ELSE value = "true"

\* POST /dishes/ by staff: Dish.objects.create(**validated_data), a flag
\* missing from the validated data takes the model default False
DishCreated(is_vegan, is_vegetarian) ==
    [price |-> 1, is_available |-> TRUE, popularity_score |-> 0,
     is_vegetarian |-> SetFlag(FALSE, DishValidate(is_vegan, is_vegetarian)),
     is_vegan |-> SetFlag(FALSE, is_vegan)]

\* PUT or PATCH /dishes/{id}/ by staff with the dietary flags: both flags are
\* optional in either method (BooleanField with a model default), validate
\* sees only the request body, update writes the validated attributes
UpdateDishFlags(d, is_vegan, is_vegetarian) ==
    /\ dishes' = [dishes EXCEPT
                     ![d].is_vegan = SetFlag(@, is_vegan),
                     ![d].is_vegetarian = SetFlag(@, DishValidate(is_vegan, is_vegetarian))]
    /\ last' = Answer("update_dish_flags", "200", is_vegan)
    /\ UNCHANGED <<ingredients, stock, transactions, stock0, adj, creating, users, flight, orders, now>>

(* ---- update_status and cancel as the statements the views run ---- *)
(* Neither view opens a transaction or locks the row: get_object reads    *)
(* the order into memory, the check runs against that copy, and           *)
(* order.save() writes every field of the copy back.                      *)

NoFlight == [pc |-> "idle", op |-> "none", order |-> 0, new_status |-> "none",
             mem |-> NoOrder, result |-> "none"]

StatusOps == {"update_status", "cancel"}

\* order = self.get_object()
StatusRead(r, op, o, new_status) ==
    /\ flight[r].pc = "idle"
    /\ orders[o].present
    /\ flight' = [flight EXCEPT ![r] =
                     [pc |-> "read", op |-> op, order |-> o,
                      new_status |-> IF op = "cancel" THEN "CANCELLED" ELSE new_status,
                      mem |-> orders[o], result |-> "none"]]
    /\ last' = Answer(op, "none", "read")
    /\ UNCHANGED <<ingredients, stock, transactions, stock0, adj, creating, users, dishes,
                   orders, now>>

\* update_status: serializer.is_valid with context order; cancel: the
\* PENDING/CONFIRMED test; both on the copy read before
StatusValidate(r) ==
    /\ flight[r].pc = "read"
    /\ LET f == flight[r]
           ok == IF f.op = "cancel" THEN Cancellable(f.mem.status)
                 ELSE f.new_status \in valid_transitions(f.mem.status)
       IN  /\ flight' = [flight EXCEPT ![r] =
                            IF ok THEN [f EXCEPT !.pc = "valid"]
                            ELSE [f EXCEPT !.pc = "done", !.result = "400"]]
           /\ last' = Answer(f.op, IF ok THEN "none" ELSE "400", "validate")
    /\ UNCHANGED <<ingredients, stock, transactions, stock0, adj, creating, users, dishes,
                   orders, now>>

\* the assignments to the copy, order.save() and its post_save handlers
StatusWrite(r) ==
    /\ flight[r].pc = "valid"
    /\ LET f == flight[r]
           stamps == f.op = "update_status" /\ StampsCompletion(f.new_status, f.mem.completed_at)
           t == now + 1
           set == [f.mem EXCEPT !.status = f.new_status,
                                !.completed_at = IF stamps THEN t ELSE @]
       IN  /\ (stamps \/ SignalStamps(set)) => now < MaxClock
           /\ now' = IF stamps \/ SignalStamps(set) THEN t ELSE now
           /\ orders' = [orders EXCEPT ![f.order] = HandleOrderStatusChange(set, t)]
           /\ flight' = [flight EXCEPT ![r] = [f EXCEPT !.pc = "done", !.result = "200"]]
           /\ last' = Answer(f.op, "200", "ok")
    /\ UNCHANGED <<ingredients, stock, transactions, stock0, adj, creating, users, dishes>>

(* ------------------------------ accounts ------------------------------ *)

\* UserRole.choices
UserRole == {"CUSTOMER", "COOK", "INVENTORY_MANAGER", "ADMINISTRATOR", "WAITER"}

Accounts == {"customer", "guest", "staff", "admin"}

NoUser == [present |-> FALSE, role |-> "none", is_staff |-> FALSE]

\* the accounts of the test fixtures and a superuser; "guest" has no account yet
InitUsers ==
    [n \in Accounts |->
        IF n = "customer" THEN [present |-> TRUE, role |-> "CUSTOMER", is_staff |-> FALSE]
        ELSE IF n = "staff" THEN [present |-> TRUE, role |-> "STAFF", is_staff |-> FALSE]
        ELSE IF n = "admin" THEN [present |-> TRUE, role |-> "CUSTOMER", is_staff |-> TRUE]
        ELSE NoUser]

\* POST /users/register/ (AllowAny) through UserRegistrationSerializer: role
\* is a choice field defaulting to CUSTOMER, is_staff is not a field of the
\* serializer and create_user leaves it False; the username must be free
RoleInputs == UserRole \cup {"absent", "STAFF", "ADMIN"}

Register(n, role) ==
    /\ IF users[n].present
       THEN /\ last' = Answer("register", "400", "username")
            /\ UNCHANGED users
       ELSE IF role \notin UserRole \cup {"absent"}
       THEN /\ last' = Answer("register", "400", "role")
            /\ UNCHANGED users
       ELSE /\ users' = [users EXCEPT ![n] =
                            [present |-> TRUE,
                             role |-> IF role = "absent" THEN "CUSTOMER" ELSE role,
                             is_staff |-> FALSE]]
            /\ last' = Answer("register", "201", "ok")
    /\ UNCHANGED <<ingredients, stock, transactions, stock0, adj, creating, flight, dishes,
                   orders, now>>

(* ---------------------- permissions of the endpoints ------------------- *)

\* pedidos IsStaffOnly.has_permission
IsStaffOnlyMutant(user) ==
    user.present /\ (user.role \in {"STAFF", "ADMIN", "ADMINISTRATOR"} \/ user.is_staff)

IsStaffOnly(user) ==
    user.present /\ (user.role \in {"STAFF", "ADMIN"} \/ user.is_staff)

\* inventario IsStaffOnly.has_permission, behind IsAuthenticated
InventarioIsStaffOnly(user) ==
    user.present /\ (user.role \in {"STAFF", "ADMIN"} \/ user.is_staff)

\* OrderViewSet.stats: "if request.user.role not in ['STAFF', 'ADMIN'] and
\* not request.user.is_staff" -> 403
StatsRefused(user) == user.role \notin {"STAFF", "ADMIN"} /\ ~user.is_staff

\* IsStaffOrReadOnlyOwn.has_permission, the default permission of the viewset
IsStaffOrReadOnlyOwn(user, method) ==
    /\ user.present
    /\ \/ user.role \in {"STAFF", "ADMIN"} \/ user.is_staff
       \/ method \in {"GET", "POST"}

\* IsStaffOrReadOnlyOwn.has_object_permission
ReadOnlyOwnObject(user, n, method, order) ==
    \/ user.role \in {"STAFF", "ADMIN"} \/ user.is_staff
    \/ method = "GET" /\ order.customer = n

\* IsOwnerOrStaff.has_object_permission
IsOwnerOrStaff(user, n, order) ==
    \/ user.role \in {"STAFF", "ADMIN"} \/ user.is_staff
    \/ order.customer = n

\* OrderViewSet.get_queryset on the orders table ords for the account n
GetQuerysetMutant(ords, n) ==
    {o \in OrderIds : ords[o].present}

GetQueryset(ords, n) ==
    IF users[n].role \in {"STAFF", "ADMIN"} \/ users[n].is_staff
    THEN {o \in OrderIds : ords[o].present}
    ELSE {o \in OrderIds : ords[o].present /\ ords[o].customer = n}

\* a request the endpoint refuses: nothing is written
Refuse(op, code) ==
    /\ last' = Answer(op, code, "refused")
    /\ UNCHANGED <<ingredients, stock, transactions, stock0, adj, creating, users, flight, dishes,
                   orders, now>>

(* ------------------------ reads of the order endpoint ------------------ *)

active_statuses == {"PENDING", "CONFIRMED", "IN_PROGRESS", "READY"}
completed_statuses == {"DELIVERED", "CANCELLED"}

\* GET /orders/ : the serialized rows of get_queryset, by order id
ListOrders(ords, n) == [o \in GetQueryset(ords, n) |-> ords[o]]

\* GET /orders/active/
ActiveOrders(ords, n) ==
    [o \in {q \in GetQueryset(ords, n) : ords[q].status \in active_statuses} |-> ords[o]]

\* GET /orders/history/
HistoryOrders(ords, n) ==
    [o \in {q \in GetQueryset(ords, n) : ords[q].status \in completed_statuses} |-> ords[o]]

\* GET /orders/{id}/ : get_object looks the id up in get_queryset (404), then
\* checks the object permission (403)
RetrieveOrder(ords, n, o) ==
    IF o \notin GetQueryset(ords, n) THEN [code |-> "404", row |-> NoOrder]
    ELSE IF ~ReadOnlyOwnObject(users[n], n, "GET", ords[o])
    THEN [code |-> "403", row |-> NoOrder]
    ELSE [code |-> "200", row |-> ords[o]]

ReadOps == {"list", "active", "history"}

\* one of the list reads by an authenticated account
ReadOrders(n, op) ==
    /\ IsStaffOrReadOnlyOwn(users[n], "GET")
    /\ LET page == IF op = "list" THEN ListOrders(orders, n)
                   ELSE IF op = "active" THEN ActiveOrders(orders, n)
                   ELSE HistoryOrders(orders, n)
       IN  last' = Answer(op, "200", IF DOMAIN page = {} THEN "empty" ELSE "orders")
    /\ UNCHANGED <<ingredients, stock, transactions, stock0, adj, creating, users, flight, dishes,
                   orders, now>>

Retrieve(n, o) ==
    /\ IsStaffOrReadOnlyOwn(users[n], "GET")
    /\ last' = Answer("retrieve", RetrieveOrder(orders, n, o).code, "order")
    /\ UNCHANGED <<ingredients, stock, transactions, stock0, adj, creating, users, flight, dishes,
                   orders, now>>

(* ------------------ writes of the order endpoint, by account ----------- *)

\* perform_create: serializer.save(customer=self.request.user) replaces the
\* customer of the validated data
OrderCustomerMutant(request_user, named) == named
OrderCustomer(request_user, named) == request_user

\* POST /orders/ : customer is a required field naming an existing user
OrderCreate(n, named, order_type, table_number, its) ==
    /\ IsStaffOrReadOnlyOwn(users[n], "POST")
    /\ IF named = "absent" \/ ~users[named].present
       THEN Refuse("create", "400")
       ELSE CreateOrder(OrderCustomer(n, named), order_type, table_number, its)

\* PATCH /orders/{id}/update_status/ behind IsStaffOnly
OrderUpdateStatus(n, o, new_status, actual_time) ==
    /\ users[n].present
    /\ IF ~IsStaffOnly(users[n])
       THEN Refuse("update_status", "403")
       ELSE UpdateStatus(o, new_status, actual_time)

\* POST /orders/{id}/cancel/ behind IsOwnerOrStaff
OrderCancel(n, o) ==
    /\ users[n].present
    /\ IF o \notin GetQueryset(orders, n) THEN Refuse("cancel", "404")
       ELSE IF ~IsOwnerOrStaff(users[n], n, orders[o]) THEN Refuse("cancel", "403")
       ELSE Cancel(o)

\* PUT or PATCH /orders/{id}/
OrderUpdate(n, o, status) ==
    /\ users[n].present
    /\ IF ~IsStaffOrReadOnlyOwn(users[n], "PATCH")
       THEN Refuse("partial_update", "403")
       ELSE PatchOrder(o, status, "absent", "absent")

\* DELETE /orders/{id}/ : the order and its items are deleted
OrderDestroy(n, o) ==
    /\ users[n].present
    /\ IF ~IsStaffOrReadOnlyOwn(users[n], "DELETE")
       THEN Refuse("destroy", "403")
       ELSE /\ orders[o].present
            /\ orders' = [orders EXCEPT ![o] = NoOrder]
            /\ last' = Answer("destroy", "204", "ok")
            /\ UNCHANGED <<ingredients, stock, transactions, stock0, adj, creating, users, flight,
                           dishes, now>>

\* GET /orders/stats/
OrderStats(n) ==
    /\ IsStaffOrReadOnlyOwn(users[n], "GET")
    /\ IF StatsRefused(users[n])
       THEN Refuse("stats", "403")
       ELSE /\ last' = Answer("stats", "200", "ok")
            /\ UNCHANGED <<ingredients, stock, transactions, stock0, adj, creating, users, flight,
                           dishes, orders, now>>

\* POST /inventory/stocks/{id}/adjust/ behind IsAuthenticated and IsStaffOnly
InventoryAdjust(n, i, ttype, qty) ==
    /\ users[n].present
    /\ IF ~InventarioIsStaffOnly(users[n])
       THEN Refuse("adjust", "403")
       ELSE Adjust(i, n, ttype, qty)

\* GET /inventory/ingredients/ , /inventory/stocks/ , /inventory/transactions/
InventoryList(n) ==
    /\ users[n].present
    /\ IF ~InventarioIsStaffOnly(users[n])
       THEN Refuse("inventory_list", "403")
       ELSE /\ last' = Answer("inventory_list", "200", "ok")
            /\ UNCHANGED <<ingredients, stock, transactions, stock0, adj, creating, users, flight,
                           dishes, orders, now>>

(* ========================= specifications ============================= *)

InitDishes ==
    [d \in Dishes |-> [price |-> 1, is_available |-> TRUE, popularity_score |-> 0,
                       is_vegetarian |-> FALSE, is_vegan |-> FALSE]]

InitCommon ==
    /\ transactions = <<>>
    /\ adj = [r \in Requests |-> Idle]
    /\ orders = [o \in OrderIds |-> NoOrder]
    /\ now = 0
    /\ last = NoRequest
    /\ creating = NotCreating
    /\ users = InitUsers
    /\ flight = [r \in Requests |-> NoFlight]

\* one ingredient loaded without a stock row, the other still to be created
\* through the ingredient endpoint; the ledger is empty
InitInv ==
    /\ ingredients = {"flour"}
    /\ stock = [i \in Ingredients |-> NoStock]
    /\ stock0 = stock
    /\ dishes = InitDishes
    /\ InitCommon

NextInv ==
    \/ \E i \in Ingredients : CreateIngredient(i)
    \/ \E i \in Ingredients, q \in QtyInputs : CreateStock(i, q)
    \/ \E i \in Ingredients, u \in StaffUsers, t \in TRANSACTION_TYPES, q \in QtyInputs :
          Adjust(i, u, t, q)
    \/ \E i \in Ingredients, q \in QtyInputs : AddStock(i, q)
    \/ \E i \in Ingredients, q \in QtyInputs : DeductStock(i, q)

SpecInv == InitInv /\ [][NextInv]_vars

\* the stock rows and the ledger under generic updates and deletions: the
\* pantry holds, besides the ingredients of the recipes, one that no recipe
\* uses; oil has no stock row yet
Pantry == Ingredients \cup {"salt"}
StockFields == {"quantity", "last_restocked", "ingredient"}
LastRestockedInputs == {0}
\* the values a PATCH body carries for the fields it names
PatchQuantities(f) == IF "quantity" \in f THEN {-1, 1} ELSE {0}
PatchTimes(f) == IF "last_restocked" \in f THEN LastRestockedInputs ELSE {NULL}
PatchTargets(i, f) == IF "ingredient" \in f THEN Pantry ELSE {i}

InitLedger ==
    /\ ingredients = Pantry
    /\ stock = [i \in Pantry |->
                   IF i = "oil" THEN NoStock
                   ELSE [present |-> TRUE, quantity |-> 1, last_restocked |-> NULL]]
    /\ stock0 = stock
    /\ dishes = InitDishes
    /\ InitCommon

NextLedger ==
    \/ \E i \in Pantry : CreateIngredient(i)
    \/ \E u \in StaffUsers : Adjust("salt", u, "ADJUSTMENT", 1)
    \/ \E i \in Pantry, f \in SUBSET StockFields :
          \E q \in PatchQuantities(f), lr \in PatchTimes(f), j \in PatchTargets(i, f) :
              PatchStock(i, f, q, lr, j)
    \/ \E i \in Pantry : DeleteIngredient(i)

SpecLedger == InitLedger /\ [][NextLedger]_vars

\* order lifecycle: stocked ingredients, available dishes, orders placed
\* through the endpoint and then moved by staff
LifeItems == {<<[dish |-> "burger", quantity |-> 1]>>}

InitLife ==
    /\ ingredients = Ingredients
    /\ stock = [i \in Ingredients |->
                   [present |-> TRUE, quantity |-> MaxStock, last_restocked |-> NULL]]
    /\ stock0 = stock
    /\ dishes = InitDishes
    /\ InitCommon

NextLife ==
    \/ \E u \in Customers, its \in LifeItems : CreateOrder(u, "TAKEOUT", "absent", its)
    \/ \E o \in OrderIds, s \in OrderStatus, a \in ActualTimes : UpdateStatus(o, s, a)
    \/ \E o \in OrderIds : Cancel(o)
    \/ \E o \in OrderIds, s \in OrderStatus : PatchOrder(o, s, "absent", "absent")
    \/ \E sel \in SUBSET OrderIds, s \in {"CONFIRMED", "IN_PROGRESS", "READY"} : AdminMark(sel, s)

SpecLife == InitLife /\ [][NextLife]_vars

\* order creation: some stock position and menu, any creation request
InitCreate ==
    /\ ingredients = Ingredients
    /\ stock \in [Ingredients -> {NoStock} \cup
                       {[present |-> TRUE, quantity |-> q, last_restocked |-> NULL] :
                            q \in 0..MaxStock}]
    /\ stock["flour"].present
    /\ stock0 = stock
    /\ dishes \in [Dishes -> {[price |-> 1, is_available |-> a, popularity_score |-> 0,
                                is_vegetarian |-> FALSE, is_vegan |-> FALSE] :
                                 a \in BOOLEAN}]
    /\ dishes["burger"].is_available
    /\ InitCommon

NextCreate ==
    \E u \in Customers, ot \in ORDER_TYPE_CHOICES \cup {"absent"}, tb \in TableInputs,
       its \in ItemLists : CreateOrder(u, ot, tb, its)

SpecCreate == InitCreate /\ [][NextCreate]_vars

\* prices: orders are placed, each item carrying a unit_price chosen by the
\* client, while staff change the dishes' prices
PriceInputs == {0, 1, 2}
ClientPrices == {0}
PricedItems == [dish : Dishes, quantity : 1..MaxServings, unit_price : ClientPrices]
PricedItemLists == {<<a>> : a \in PricedItems} \cup {<<a, b>> : a, b \in PricedItems}

NextPrice ==
    \/ \E u \in Customers, its \in PricedItemLists : CreateOrder(u, "TAKEOUT", "absent", its)
    \/ \E d \in Dishes, p \in PriceInputs : UpdateDish(d, p)

SpecPrice == InitLife /\ [][NextPrice]_vars

\* the menu: dishes created through the dish endpoint with any dietary flags,
\* then updated by staff
InitDiet ==
    /\ ingredients = Ingredients
    /\ stock = [i \in Ingredients |->
                   [present |-> TRUE, quantity |-> MaxStock, last_restocked |-> NULL]]
    /\ stock0 = stock
    /\ dishes \in [Dishes -> {DishCreated(vg, vt) : vg, vt \in FlagInputs}]
    /\ InitCommon

NextDiet ==
    \/ \E d \in Dishes, vg, vt \in FlagInputs : UpdateDishFlags(d, vg, vt)
    \/ \E d \in Dishes, p \in PriceInputs : UpdateDish(d, p)

SpecDiet == InitDiet /\ [][NextDiet]_vars

\* access: two customers and a staff member use the order endpoint
Requesters == {"customer", "guest", "staff"}
NamedCustomers == {"absent", "customer", "guest"}

InitAccess ==
    /\ ingredients = Ingredients
    /\ stock = [i \in Ingredients |->
                   [present |-> TRUE, quantity |-> MaxStock, last_restocked |-> NULL]]
    /\ stock0 = stock
    /\ dishes = InitDishes
    /\ transactions = <<>>
    /\ adj = [r \in Requests |-> Idle]
    /\ orders = [o \in OrderIds |-> NoOrder]
    /\ now = 0
    /\ last = NoRequest
    /\ flight = [r \in Requests |-> NoFlight]
    /\ creating = NotCreating
    /\ users = [InitUsers EXCEPT !["guest"] =
                    [present |-> TRUE, role |-> "WAITER", is_staff |-> FALSE]]

NextAccess ==
    \/ \E n \in Requesters, c \in NamedCustomers, its \in LifeItems :
          OrderCreate(n, c, "TAKEOUT", "absent", its)
    \/ \E n \in Requesters, op \in ReadOps : ReadOrders(n, op)
    \/ \E n \in Requesters, o \in OrderIds : Retrieve(n, o)
    \/ \E n \in Requesters, o \in OrderIds, s \in OrderStatus : OrderUpdateStatus(n, o, s, NULL)
    \/ \E n \in Requesters, o \in OrderIds : OrderCancel(n, o)
    \/ \E n \in Requesters, o \in OrderIds : OrderUpdate(n, o, "DELIVERED")
    \/ \E n \in Requesters, o \in OrderIds : OrderDestroy(n, o)

SpecAccess == InitAccess /\ [][NextAccess]_vars

\* registration: accounts are registered with any role value, and every
\* account calls the staff-only operations of the order and inventory endpoints
Registrants == {"guest"}

InitRegister ==
    /\ ingredients = Ingredients
    /\ stock = [i \in Ingredients |->
                   [present |-> TRUE, quantity |-> MaxStock, last_restocked |-> NULL]]
    /\ stock0 = stock
    /\ dishes = InitDishes
    /\ transactions = <<>>
    /\ adj = [r \in Requests |-> Idle]
    /\ orders = [o \in OrderIds |-> NoOrder]
    /\ now = 0
    /\ last = NoRequest
    /\ flight = [r \in Requests |-> NoFlight]
    /\ creating = NotCreating
    /\ users = [InitUsers EXCEPT !["customer"] = NoUser]

NextRegister ==
    \/ \E n \in Registrants, r \in RoleInputs : Register(n, r)
    \/ \E n \in Registrants, its \in LifeItems : OrderCreate(n, n, "TAKEOUT", "absent", its)
    \/ \E n \in Accounts, o \in OrderIds : OrderUpdateStatus(n, o, "CONFIRMED", NULL)
    \/ \E n \in Accounts : OrderStats(n)
    \/ \E n \in Accounts : InventoryAdjust(n, "flour", "WASTE", 1)
    \/ \E n \in Accounts : InventoryList(n)

SpecRegister == InitRegister /\ [][NextRegister]_vars

\* two status requests served statement by statement on orders placed
\* through the endpoint
NextStatusRace ==
    \/ \E u \in Customers, its \in LifeItems : CreateOrder(u, "TAKEOUT", "absent", its)
    \/ \E r \in Requests, op \in StatusOps, o \in OrderIds, s \in OrderStatus :
          StatusRead(r, op, o, s)
    \/ \E r \in Requests : StatusValidate(r)
    \/ \E r \in Requests : StatusWrite(r)

SpecStatusRace == InitLife /\ [][NextStatusRace]_vars

\* one order creation served statement by statement, on the menu and stock
\* of InitCreate
NextPlace ==
    \/ \E u \in Customers, ot \in ORDER_TYPE_CHOICES \cup {"absent"}, tb \in TableInputs,
          its \in ItemLists : CreateBegin(u, ot, tb, its)
    \/ CreateItem
    \/ CreateTotal
    \/ CreateCrash

SpecPlace == InitCreate /\ [][NextPlace]_vars

\* every ingredient has a stock row with some non-negative quantity; two
\* adjust requests arrive
InitAdj ==
    /\ ingredients = Ingredients
    /\ stock \in [Ingredients -> {[present |-> TRUE, quantity |-> q, last_restocked |-> NULL] :
                                      q \in 0..MaxStock}]
    /\ stock0 = stock
    /\ dishes = InitDishes
    /\ InitCommon

\* adjust requests of two staff users on one stock row, with every kind a
\* caller can name
AdjustUsers == {"staff", "admin"}
KindInputs == TRANSACTION_TYPES \cup {"TRANSFER"}

NextAdjust ==
    \E u \in AdjustUsers, t \in KindInputs, q \in QtyInputs : Adjust("flour", u, t, q)

SpecAdjust == InitAdj /\ [][NextAdjust]_vars

NextRace ==
    \/ \E r \in Requests, i \in Ingredients, u \in StaffUsers, t \in TRANSACTION_TYPES,
          q \in QtyInputs : AdjRead(r, i, u, t, q)
    \/ \E r \in Requests : AdjSave(r)
    \/ \E r \in Requests : AdjInsert(r)

SpecRace == InitAdj /\ [][NextRace]_vars

NextCrash ==
    \/ NextRace
    \/ \E r \in Requests : AdjCrash(r)

SpecCrash == InitAdj /\ [][NextCrash]_vars

(* ============================== claims ================================ *)

IngredientTxns(i) == SelectSeq(transactions, LAMBDA t : t.ingredient = i)

RECURSIVE SumDeltas(_, _)
SumDeltas(S, i) ==
    IF S = {} THEN 0
    ELSE LET r == CHOOSE x \in S : TRUE
         IN  (IF adj[r].result = "200" /\ adj[r].ingredient = i THEN adj[r].delta ELSE 0)
             + SumDeltas(S \ {r}, i)

\* C1: after any sequence of adjust, add_stock and deduct_stock calls that
\* the operations accept, every stock quantity is at least zero.
StockNeverNegative ==
    \A i \in Ingredients : stock[i].present => stock[i].quantity >= 0

\* C2: the ledger of every ingredient replays from zero: each row's
\* balance_after is the previous row's balance_after (zero for the first
\* row) plus the row's signed quantity, and the last row's balance_after is
\* the current stock quantity.
LedgerReplaysFromZero ==
    \A i \in Ingredients :
        LET led == IngredientTxns(i)
        IN  /\ \A k \in 1..Len(led) :
                  led[k].balance_after =
                      (IF k = 1 THEN 0 ELSE led[k - 1].balance_after) + led[k].quantity
            /\ Len(led) > 0 => led[Len(led)].balance_after = stock[i].quantity

\* C3: when the concurrent adjust requests have all been answered, each
\* stock quantity is the initial quantity plus the signed deltas of the
\* requests answered 200.
NoLostUpdate ==
    (\A r \in Requests : adj[r].pc = "done") =>
        \A i \in Ingredients :
            stock[i].quantity = stock0[i].quantity + SumDeltas(Requests, i)

\* C4: adjust is atomic: every answered request that issued its stock UPDATE
\* (it passed validation and the new_qty check) has its transaction row in
\* the ledger, also when the request failed between the two writes.
AdjustAtomic ==
    \A r \in Requests :
        (adj[r].pc = "done" /\ adj[r].result # "400") =>
            \E k \in 1..Len(transactions) :
                transactions[k] = Txn(adj[r].ingredient, adj[r].ttype, adj[r].delta,
                                      adj[r].quantity, adj[r].user)

\* C5: an adjust request whose signed delta would take the quantity below
\* zero is answered 400 and leaves the stock row (quantity, last_restocked)
\* and the transaction rows as they were.
InsufficientAdjustRejected ==
    [][\A i \in Ingredients, u \in StaffUsers, t \in TRANSACTION_TYPES, q \in QtyInputs :
          (/\ last'.op = "adjust"
           /\ stock[i].present
           /\ stock[i].quantity + Delta(t, q) < 0
           /\ Adjust(i, u, t, q)) =>
              /\ last'.result = "400"
              /\ stock' = stock
              /\ transactions' = transactions]_vars

InsufficientAdjustRejectedWitness ==
    /\ last = Answer("adjust", "400", "Insufficient stock")
    /\ Len(transactions) > 0
    /\ \E i \in Ingredients : stock[i].present /\ stock[i].quantity > 0

\* the seven edges of the allowed-transition table
AllowedEdges ==
    {<<"PENDING", "CONFIRMED">>, <<"PENDING", "CANCELLED">>,
     <<"CONFIRMED", "IN_PROGRESS">>, <<"CONFIRMED", "CANCELLED">>,
     <<"IN_PROGRESS", "READY">>, <<"IN_PROGRESS", "CANCELLED">>,
     <<"READY", "DELIVERED">>}

\* C6: an update_status request is accepted exactly when (current status,
\* requested status) is one of the seven edges of the table, and a rejected
\* request leaves the order as it was.
StatusValidatorClosed ==
    [][\A o \in OrderIds, s \in OrderStatus, a \in ActualTimes :
          (last'.op = "update_status" /\ UpdateStatus(o, s, a)) =>
              /\ last'.result = "200" <=> <<orders[o].status, s>> \in AllowedEdges
              /\ last'.result = "200" => orders'[o].status = s
              /\ last'.result # "200" => orders' = orders]_vars

StatusValidatorClosedWitness ==
    /\ last = Answer("update_status", "400", "status")
    /\ \E o \in OrderIds : orders[o].present /\ orders[o].status = "DELIVERED"
    /\ \E o \in OrderIds : orders[o].present /\ orders[o].status = "CANCELLED"

\* C7: every change of an order's status, by whatever operation, is an edge
\* of the allowed-transition table.
EveryStatusChangeAllowed ==
    [][\A o \in OrderIds :
          (orders[o].present /\ orders'[o].status # orders[o].status) =>
              <<orders[o].status, orders'[o].status>> \in AllowedEdges]_vars

\* C8: once an order's completed_at is set, no operation changes it.
CompletedAtSetOnce ==
    [][\A o \in OrderIds :
          orders[o].completed_at # NULL =>
              orders'[o].completed_at = orders[o].completed_at]_vars

\* a completed order on which a later operation has acted: the admin action
\* moved it back to READY and its completed_at is still there
CompletedAtSetOnceWitness ==
    \E o \in OrderIds :
        /\ orders[o].present
        /\ orders[o].status = "READY"
        /\ orders[o].completed_at # NULL
        /\ last.op = "admin_mark"

\* C9: a creation request for a DINE_IN order (explicit or by default)
\* without a table number is answered with a validation error on
\* table_number, and no order is persisted.
DineInRequiresTable ==
    [][\A u \in Customers, ot \in {"absent", "DINE_IN"}, tb \in {"absent", ""},
         its \in ItemLists :
          CreateOrder(u, ot, tb, its) =>
              /\ last'.result = "400"
              /\ orders' = orders]_vars

\* C10: order creation accepts a request only when, for every requested
\* item and every ingredient of its dish's recipe, the stock covers the
\* per-serving quantity times the requested number of servings.
ItemsCoveredAtMultiplier ==
    [][\A u \in Customers, ot \in ORDER_TYPE_CHOICES \cup {"absent"}, tb \in TableInputs,
         its \in ItemLists :
          (CreateOrder(u, ot, tb, its) /\ last'.result = "201") =>
              \A k \in 1..Len(its), i \in Ingredients :
                  Recipe(its[k].dish, i) > 0 =>
                      /\ stock[i].present
                      /\ stock[i].quantity >= Recipe(its[k].dish, i) * its[k].quantity]_vars

\* the number of requested items that reference dish d
ItemsReferencing(its, d) == Cardinality({k \in 1..Len(its) : its[k].dish = d})

\* C11: when order creation answers 201, the popularity_score of every dish
\* is its previous value plus the number of the order's items referencing
\* that dish.
PopularityIncremented ==
    [][\A u \in Customers, ot \in ORDER_TYPE_CHOICES \cup {"absent"}, tb \in TableInputs,
         its \in ItemLists :
          (CreateOrder(u, ot, tb, its) /\ last'.result = "201") =>
              \A d \in Dishes :
                  dishes'[d].popularity_score =
                      dishes[d].popularity_score + ItemsReferencing(its, d)]_vars

\* C12: the unit_price of every item of a newly created order is the price
\* its dish had when the order was created, whatever unit_price the client
\* sent, and no later step (a price change of a dish included) changes the
\* items (unit_price, subtotal) or the total_amount of an existing order.
PriceSnapshot ==
    [][\A o \in OrderIds :
          /\ (~orders[o].present /\ orders'[o].present) =>
                 \A k \in 1..Len(orders'[o].items) :
                     orders'[o].items[k].unit_price = dishes[orders'[o].items[k].dish].price
          /\ orders[o].present =>
                 /\ orders'[o].items = orders[o].items
                 /\ orders'[o].total_amount = orders[o].total_amount]_vars

\* an order whose item keeps the price of its creation after the dish's
\* price was changed
PriceSnapshotWitness ==
    /\ last = Answer("update_dish", "200", "ok")
    /\ \E o \in OrderIds :
           /\ orders[o].present
           /\ \E k \in 1..Len(orders[o].items) :
                  /\ orders[o].items[k].unit_price = 1
                  /\ orders[o].items[k].quantity = 2
                  /\ orders[o].items[k].subtotal = 2
                  /\ dishes[orders[o].items[k].dish].price = 2

\* the sum over the rows of an order of quantity times unit_price
RECURSIVE LineSum(_, _)
LineSum(its, n) ==
    IF n = 0 THEN 0 ELSE its[n].quantity * its[n].unit_price + LineSum(its, n - 1)

\* C13: every order item's subtotal is its quantity times its unit_price,
\* and the total_amount of every created order is the sum of the subtotals
\* of that order's items.
DerivedFields ==
    \A o \in OrderIds :
        orders[o].present =>
            /\ \A k \in 1..Len(orders[o].items) :
                   orders[o].items[k].subtotal =
                       orders[o].items[k].quantity * orders[o].items[k].unit_price
            /\ orders[o].total_amount = LineSum(orders[o].items, Len(orders[o].items))

\* an order of two items at different prices and more than one serving
DerivedFieldsWitness ==
    \E o \in OrderIds :
        /\ orders[o].present
        /\ Len(orders[o].items) = 2
        /\ orders[o].items[1].unit_price = 1 /\ orders[o].items[1].quantity = 2
        /\ orders[o].items[2].unit_price = 2 /\ orders[o].items[2].quantity = 2
        /\ orders[o].total_amount = 6

\* C14: order creation is all-or-nothing: once a creation request that
\* passed validation has been answered, also with a failure, its order row
\* either does not exist or has every requested item and a total_amount
\* that is the sum of its items' subtotals.
CreationAllOrNothing ==
    (creating.pc = "done" /\ creating.result # "400") =>
        LET ord == orders[creating.order]
        IN  ord.present =>
                /\ Len(ord.items) = Len(creating.requested)
                /\ ord.total_amount = LineSum(ord.items, Len(ord.items))

OnQuantityField(answer) == answer.detail \in {"quantity", "quantity,ingredient"}

\* C16 as stated: a PATCH of a stock row that carries a quantity is answered
\* 400 with the error on the quantity field and changes no stock row; one
\* that carries no quantity leaves every quantity and the ledger unchanged.
QuantityPatchErrorOnQuantity ==
    [][last'.op = "patch_stock" =>
       \A i \in Pantry, f \in SUBSET StockFields :
          \A q \in PatchQuantities(f), lr \in PatchTimes(f), j \in PatchTargets(i, f) :
          PatchStock(i, f, q, lr, j) =>
              /\ transactions' = transactions
              /\ "quantity" \in f =>
                     /\ last'.result = "400"
                     /\ OnQuantityField(last')
                     /\ stock' = stock
              /\ "quantity" \notin f =>
                     LET at == IF last'.result = "200" /\ "ingredient" \in f THEN j ELSE i
                     IN  stock'[at].quantity = stock[i].quantity]_vars

\* C16 amended: a PATCH of a stock row that carries a quantity is answered
\* 400 and changes no stock row, the error being on the quantity field
\* whenever the other fields sent pass their own validation; one
\* that carries no quantity leaves the row's quantity and the ledger
\* unchanged.
QuantityPatchRejected ==
    [][last'.op = "patch_stock" =>
       \A i \in Pantry, f \in SUBSET StockFields :
          \A q \in PatchQuantities(f), lr \in PatchTimes(f), j \in PatchTargets(i, f) :
          PatchStock(i, f, q, lr, j) =>
              /\ transactions' = transactions
              /\ "quantity" \in f =>
                     /\ last'.result = "400"
                     /\ stock' = stock
                     /\ "ingredient" \notin PatchFieldErrors(i, f, q, j) =>
                            OnQuantityField(last')
              /\ "quantity" \notin f =>
                     LET at == IF last'.result = "200" /\ "ingredient" \in f THEN j ELSE i
                     IN  stock'[at].quantity = stock[i].quantity]_vars

\* a PATCH carrying a quantity was refused on a stocked row that already
\* has ledger rows
QuantityPatchRejectedWitness ==
    /\ last = Answer("patch_stock", "400", "quantity")
    /\ Len(transactions) > 0
    /\ \E i \in Pantry : stock[i].present /\ stock[i].quantity = 2

\* C20: the ledger is append-only: every transaction row that exists stays
\* in the ledger, unchanged, after every step.
LedgerAppendOnly ==
    [][\A k \in 1..Len(transactions) :
          /\ k <= Len(transactions')
          /\ transactions'[k] = transactions[k]]_vars

\* the signed delta the ledger row of an adjustment carries
SignedDelta(t, q) ==
    IF t = "RESTOCK" THEN q
    ELSE IF t \in {"WASTE", "RETURN"} THEN 0 - q
    ELSE q

\* C17: every adjust request answered 200 appends exactly one transaction
\* row: for the stock's ingredient, of the requested kind, with the signed
\* delta as quantity (+q for RESTOCK, -q for WASTE and RETURN, q as sent for
\* ADJUSTMENT), the quantity written to the stock as balance_after, and the
\* requesting user.
AdjustAppendsOneRow ==
    [][(last'.op = "adjust" /\ last'.result = "200") =>
       \A u \in AdjustUsers, t \in KindInputs, q \in QtyInputs :
          Adjust("flour", u, t, q) =>
              transactions' = Append(transactions,
                                     [ingredient |-> "flour", transaction_type |-> t,
                                      quantity |-> SignedDelta(t, q),
                                      balance_after |-> stock'["flour"].quantity,
                                      user |-> u])]_vars

\* the second staff user recorded a waste after another row
AdjustAppendsOneRowWitness ==
    /\ last = Answer("adjust", "200", "ok")
    /\ Len(transactions) = 2
    /\ transactions[2].transaction_type = "WASTE"
    /\ transactions[2].quantity = -1
    /\ transactions[2].user = "admin"
    /\ transactions[1].user = "staff"

\* the requests the adjustment validation must refuse
InvalidAdjustment(t, q) ==
    \/ q = 0
    \/ q < 0 /\ t \in {"RESTOCK", "WASTE", "RETURN"}
    \/ t \notin {"RESTOCK", "ADJUSTMENT", "WASTE", "RETURN"}

\* C18: an adjust request with quantity zero, with a negative quantity for
\* RESTOCK, WASTE or RETURN, or with a kind outside RESTOCK, ADJUSTMENT,
\* WASTE, RETURN is answered with a validation error and leaves the stock
\* and the ledger unchanged; a negative quantity for ADJUSTMENT passes
\* validation (it is applied, or refused for insufficient stock).
AdjustInputValidated ==
    [][last'.op = "adjust" =>
       \A u \in AdjustUsers, t \in KindInputs, q \in QtyInputs :
          Adjust("flour", u, t, q) =>
              /\ InvalidAdjustment(t, q) =>
                     /\ last'.result = "400"
                     /\ last'.detail \in {"quantity", "transaction_type"}
                     /\ stock' = stock
                     /\ transactions' = transactions
              /\ (q < 0 /\ last'.result = "200") => t = "ADJUSTMENT"
              /\ (q < 0 /\ t = "ADJUSTMENT") =>
                     last'.detail \in {"ok", "Insufficient stock"}]_vars

\* a request was refused by validation on a stock with ledger rows
AdjustInputValidatedWitness ==
    /\ last = Answer("adjust", "400", "quantity")
    /\ Len(transactions) > 0
    /\ stock["flour"].quantity > 0

\* C19: deduct_stock with a positive quantity q returns False and leaves
\* the stock and the ledger unchanged when q exceeds the current quantity;
\* otherwise it decreases the quantity by q, appends one USAGE row with
\* quantity -q and the new quantity as balance_after, and returns True.
DeductContract ==
    [][last'.op = "deduct_stock" =>
       \A i \in Ingredients, q \in {x \in QtyInputs : x > 0} :
          DeductStock(i, q) =>
              IF q > stock[i].quantity
              THEN /\ last'.result = "False"
                   /\ stock' = stock
                   /\ transactions' = transactions
              ELSE /\ last'.result = "True"
                   /\ stock'[i].quantity = stock[i].quantity - q
                   /\ Len(transactions') = Len(transactions) + 1
                   /\ LET row == transactions'[Len(transactions')]
                      IN  /\ SubSeq(transactions', 1, Len(transactions)) = transactions
                          /\ row.ingredient = i
                          /\ row.transaction_type = "USAGE"
                          /\ row.quantity = 0 - q
                          /\ row.balance_after = stock'[i].quantity]_vars

\* a deduction took a stock to exactly zero
DeductContractWitness ==
    /\ last = Answer("deduct_stock", "True", "ok")
    /\ \E i \in Ingredients :
           /\ stock[i].present
           /\ stock[i].quantity = 0
           /\ Len(transactions) > 0
           /\ transactions[Len(transactions)] = Txn(i, "USAGE", -1, 0, "none")

\* C21: every dish with is_vegan true also has is_vegetarian true, after any
\* sequence of dish create, update and partial update requests
VeganImpliesVegetarian ==
    \A d \in Dishes : dishes[d].is_vegan => dishes[d].is_vegetarian

\* the account n is not staff for the order endpoint
NonStaff(n) ==
    users[n].present /\ ~users[n].is_staff /\ users[n].role \notin {"STAFF", "ADMIN"}

\* rows another account's orders may hold, and the orders tables that keep
\* the rows owned by n and hold any such row, or none, everywhere else
OtherRows(n) ==
    {NoOrder} \cup
    {[present |-> TRUE, customer |-> m, status |-> s, order_type |-> "TAKEOUT",
      table_number |-> "null", total_amount |-> 1, actual_time |-> NULL,
      completed_at |-> NULL, items |-> <<>>] :
        m \in Requesters \ {n}, s \in {"PENDING", "DELIVERED"}}

OthersVaried(n) ==
    {alt \in [OrderIds -> OtherRows(n) \cup {orders[o] : o \in OrderIds}] :
        \A o \in OrderIds :
            IF orders[o].present /\ orders[o].customer = n
            THEN alt[o] = orders[o]
            ELSE alt[o] \in OtherRows(n)}

\* everything the account n reads from the order endpoint on the table ords
Observation(ords, n) ==
    [list |-> ListOrders(ords, n),
     active |-> ActiveOrders(ords, n),
     history |-> HistoryOrders(ords, n),
     retrieve |-> [o \in OrderIds |-> RetrieveOrder(ords, n, o)]]

\* C22: for a non-staff account, list, retrieve, active and history return
\* only orders whose customer is that account, retrieving another customer's
\* order answers 404, and what the account reads is the same whatever rows
\* the other accounts' orders hold; a staff account lists every order
OrderReadIsolation ==
    \A n \in Requesters :
        IF NonStaff(n)
        THEN /\ \A o \in DOMAIN ListOrders(orders, n) \cup DOMAIN ActiveOrders(orders, n)
                         \cup DOMAIN HistoryOrders(orders, n) : orders[o].customer = n
             /\ \A o \in OrderIds :
                    /\ RetrieveOrder(orders, n, o).code = "200" => orders[o].customer = n
                    /\ (orders[o].present /\ orders[o].customer # n) =>
                           RetrieveOrder(orders, n, o).code = "404"
             /\ \A alt \in OthersVaried(n) : Observation(alt, n) = Observation(orders, n)
        ELSE DOMAIN ListOrders(orders, n) = {o \in OrderIds : orders[o].present}

\* a retrieve was answered 404 while each of the two customers has an order
OrderReadIsolationWitness ==
    /\ last = Answer("retrieve", "404", "order")
    /\ orders[1].present /\ orders[1].customer = "guest"
    /\ orders[2].present /\ orders[2].customer = "customer"

\* the step creates one order, owned by n and PENDING, and changes no other
OwnCreation(n) ==
    \E o \in OrderIds :
        /\ ~orders[o].present
        /\ orders'[o].present /\ orders'[o].customer = n /\ orders'[o].status = "PENDING"
        /\ \A p \in OrderIds \ {o} : orders'[p] = orders[p]

\* C23: of the requests a non-staff account makes to the order endpoint,
\* create makes an order whose customer is the requester whatever customer
\* the request names, cancel cancels the requester's own PENDING or CONFIRMED
\* order, and every other write is refused and leaves all orders unchanged
NonStaffWriteAuthority ==
    [][\A n \in Requesters : NonStaff(n) =>
          /\ last'.op = "create" =>
                 \A c \in NamedCustomers, its \in LifeItems :
                     OrderCreate(n, c, "TAKEOUT", "absent", its) =>
                         \/ last'.result = "400" /\ orders' = orders
                         \/ last'.result = "201" /\ OwnCreation(n)
          /\ last'.op = "update_status" =>
                 \A o \in OrderIds, s \in OrderStatus :
                     OrderUpdateStatus(n, o, s, NULL) =>
                         last'.result = "403" /\ orders' = orders
          /\ last'.op = "partial_update" =>
                 \A o \in OrderIds :
                     OrderUpdate(n, o, "DELIVERED") =>
                         last'.result = "403" /\ orders' = orders
          /\ last'.op = "destroy" =>
                 \A o \in OrderIds :
                     OrderDestroy(n, o) => last'.result = "403" /\ orders' = orders
          /\ last'.op = "cancel" =>
                 \A o \in OrderIds :
                     OrderCancel(n, o) =>
                         IF /\ orders[o].present /\ orders[o].customer = n
                            /\ orders[o].status \in {"PENDING", "CONFIRMED"}
                         THEN orders' = [orders EXCEPT ![o].status = "CANCELLED"]
                         ELSE last'.result \in {"400", "404"} /\ orders' = orders]_vars

\* a delete was refused while one customer's order stands cancelled and the
\* other customer has an order
NonStaffWriteAuthorityWitness ==
    /\ last = Answer("destroy", "403", "refused")
    /\ \E o \in OrderIds :
          orders[o].present /\ orders[o].customer = "customer" /\ orders[o].status = "CANCELLED"
    /\ \E o \in OrderIds : orders[o].present /\ orders[o].customer = "guest"

\* an account with a role registration accepts and is_staff false
RegistrableAccount(n) ==
    users[n].present /\ users[n].role \in UserRole /\ ~users[n].is_staff

\* C30: registration creates only accounts with a role among CUSTOMER, COOK,
\* INVENTORY_MANAGER, ADMINISTRATOR, WAITER and is_staff false, and every
\* such account is answered 403 by update_status, by the order statistics
\* and by the inventory operations, which then write nothing
RegisteredNeverStaff ==
    [][/\ last'.op = "register" =>
             \A n \in Accounts :
                 users'[n] # users[n] =>
                     /\ last'.result = "201"
                     /\ ~users[n].present
                     /\ users'[n].role \in UserRole
                     /\ ~users'[n].is_staff
       /\ \A n \in Accounts : RegistrableAccount(n) =>
             /\ last'.op = "update_status" =>
                    \A o \in OrderIds :
                        OrderUpdateStatus(n, o, "CONFIRMED", NULL) =>
                            last'.result = "403" /\ orders' = orders
             /\ last'.op = "stats" => (OrderStats(n) => last'.result = "403")
             /\ last'.op = "adjust" =>
                    (InventoryAdjust(n, "flour", "WASTE", 1) =>
                        /\ last'.result = "403"
                        /\ stock' = stock /\ transactions' = transactions)
             /\ last'.op = "inventory_list" =>
                    (InventoryList(n) => last'.result = "403")]_vars

\* the only account besides the staff ones registered as ADMINISTRATOR, and
\* update_status was refused
RegisteredNeverStaffWitness ==
    /\ last = Answer("update_status", "403", "refused")
    /\ ~users["customer"].present
    /\ users["guest"].present /\ users["guest"].role = "ADMINISTRATOR"
    /\ \E o \in OrderIds : orders[o].present /\ orders[o].customer = "guest"

\* C24: an update_status to DELIVERED answered 200 that supplies actual_time
\* leaves the order DELIVERED with completed_at set and actual_time equal to
\* the supplied value; an actual_time supplied with another status is not
\* recorded
DeliveredRecordsActualTime ==
    [][(last'.op = "update_status" /\ last'.result = "200") =>
          \A o \in OrderIds, a \in ActualTimes \ {NULL} :
              /\ UpdateStatus(o, "DELIVERED", a) =>
                     /\ orders'[o].status = "DELIVERED"
                     /\ orders'[o].completed_at # NULL
                     /\ orders'[o].actual_time = a
              /\ \A s \in OrderStatus \ {"DELIVERED"} :
                     UpdateStatus(o, s, a) => orders'[o].actual_time = orders[o].actual_time]_vars

\* C25: an operation that appends a RESTOCK transaction for an ingredient
\* sets that stock's last_restocked to the time of the operation, one that
\* appends a transaction of another kind leaves last_restocked unchanged,
\* and an ingredient with a RESTOCK transaction has a non-null last_restocked
LastRestockedFollowsRestock ==
    [][/\ Len(transactions') = Len(transactions) + 1 =>
             LET row == transactions'[Len(transactions')]
                 i == row.ingredient
             IN  IF row.transaction_type = "RESTOCK"
                 THEN stock'[i].last_restocked # NULL /\ stock'[i].last_restocked = now'
                 ELSE stock'[i].last_restocked = stock[i].last_restocked
       /\ \A k \in 1..Len(transactions') :
             transactions'[k].transaction_type = "RESTOCK" =>
                 stock'[transactions'[k].ingredient].last_restocked # NULL]_vars

DeliveredHasCompletedAt ==
    [][/\ \A o \in OrderIds :
             (orders'[o].present /\ orders'[o].status = "DELIVERED") =>
                 orders'[o].completed_at # NULL
       /\ \A o \in OrderIds :
             (~orders[o].present /\ orders'[o].present) =>
                 orders'[o].status = "PENDING" /\ orders'[o].completed_at = NULL]_vars

\* a generic update moved an order to DELIVERED while another order, moved
\* by an admin bulk action, is READY
DeliveredHasCompletedAtWitness ==
    /\ last = Answer("partial_update", "200", "ok")
    /\ \E o \in OrderIds :
          orders[o].present /\ orders[o].status = "DELIVERED" /\ orders[o].completed_at = now
    /\ \E o \in OrderIds :
          orders[o].present /\ orders[o].status = "READY" /\ orders[o].completed_at = NULL

\* C29: saving an existing order that is DELIVERED with completed_at unset
\* runs exactly one nested save, which sets completed_at, and then stops;
\* saving an order in any other state runs no nested save; a save that does
\* not create the order updates no dish
PostSaveTerminates ==
    \A o \in OrderIds : orders[o].present =>
        \A s \in OrderStatus, c \in {NULL, now}, created \in BOOLEAN :
            LET ord == [orders[o] EXCEPT !.status = s, !.completed_at = c]
                r == PostSave(ord, created, now + 1, MaxNesting)
            IN  /\ IF ~created /\ s = "DELIVERED" /\ c = NULL
                   THEN /\ r.nested_saves = 1
                        /\ r.order = [ord EXCEPT !.completed_at = now + 1]
                   ELSE /\ r.nested_saves = 0
                        /\ r.order = ord
                /\ ~created => r.dish_updates = 0
                /\ ~created => HandleOrderStatusChange(ord, now + 1) = r.order

\* a generic update has just saved the first order as DELIVERED and the
\* handler stamped it, the second order not being placed yet
PostSaveTerminatesWitness ==
    /\ last = Answer("partial_update", "200", "ok")
    /\ orders[1].present /\ orders[1].status = "DELIVERED"
    /\ orders[1].completed_at = now /\ orders[1].items # <<>>
    /\ ~orders[2].present

\* C27: with a cancel and an update_status, or two update_status requests,
\* interleaved on the same order, every change of the persisted status is
\* an edge of the allowed-transition table, and a status that is CANCELLED
\* or DELIVERED is never replaced
ConcurrentStatusPath ==
    [][\A o \in OrderIds :
          /\ (orders[o].present /\ orders'[o].status # orders[o].status) =>
                 <<orders[o].status, orders'[o].status>> \in AllowedEdges
          /\ (orders[o].present /\ orders[o].status \in {"CANCELLED", "DELIVERED"}) =>
                 orders'[o].status = orders[o].status]_vars

====
